---- MODULE Spec2Model ----
(***************************************************************************)
(* Model of the OpenCal client-side calendar scripts.                      *)
(*                                                                         *)
(* Two widgets live in the script:                                         *)
(*   - the icon calendar: calendar() renders the <li> cells of             *)
(*     (currYear, currMonth) into daysTag; the prev/next icons navigate;   *)
(*   - the table calendar: showCalendar(month, year) renders six <tr>      *)
(*     rows into calendar-body; next(), previous(), jump() navigate.       *)
(*                                                                         *)
(* JavaScript's Date is modelled by the ECMAScript day arithmetic          *)
(* (MakeDay, WeekDay, YearFromTime, MonthFromTime, DateFromTime).          *)
(*                                                                         *)
(* The page is used within one calendar day: every `new Date()` of a       *)
(* behaviour reads the same day `now`, chosen when the page loads.         *)
(* The globals today, currentYear and currentMonth, which the script uses  *)
(* without declaring them, hold the load-time date, and the call of        *)
(* renderCalendar() at load is the first calendar().                       *)
(***************************************************************************)
EXTENDS Integers, Sequences, FiniteSets

VARIABLES
    now,            \* the system clock read by `new Date()`
    date,           \* global `date` of the icon calendar
    currYear,       \* global `currYear`
    currMonth,      \* global `currMonth`
    daysTag,        \* <li> cells of the .days element
    currentDate,    \* text of the .current-date element
    today,          \* global `today` of the table calendar
    currentYear,    \* global `currentYear`
    currentMonth,   \* global `currentMonth`
    selectYear,     \* value of the year selector
    selectMonth,    \* value of the month selector
    tbl,            \* rows of the calendar-body element
    monthAndYear,   \* text of the monthAndYear element
    consoleError,   \* last uncaught error of a handler
    lastOp          \* the handler that ran last

vars == <<now, date, currYear, currMonth, daysTag, currentDate, today,
          currentYear, currentMonth, selectYear, selectMonth, tbl,
          monthAndYear, consoleError, lastOp>>

iconVars == <<date, currYear, currMonth, daysTag, currentDate>>

tableVars == <<currentYear, currentMonth, selectYear, selectMonth, tbl,
               monthAndYear>>

----------------------------------------------------------------------------
(* Bounds *)

\* the views and clocks range over FirstYear .. FirstYear + YearSpan
YearSpan == 2

\* previous() is not followed below month index -MaxBelow
MaxBelow == 2

\* the first year of the views and clocks
FirstYear == 2023

Years == FirstYear .. (FirstYear + YearSpan)

----------------------------------------------------------------------------
(* JavaScript numbers: the integers and NaN *)

NaN == -1000000

IsNaN(x) == x = NaN

\* a + b
JSAdd(a, b) == IF IsNaN(a) \/ IsNaN(b) THEN NaN ELSE a + b

\* a - b
JSSub(a, b) == IF IsNaN(a) \/ IsNaN(b) THEN NaN ELSE a - b

\* a % b: the result takes the sign of the dividend
JSMod(a, b) ==
    IF IsNaN(a) \/ IsNaN(b) \/ b = 0 THEN NaN
    ELSE IF a >= 0 THEN a % b ELSE 0 - ((0 - a) % b)

\* a === b
JSStrictEq(a, b) == (~IsNaN(a)) /\ (~IsNaN(b)) /\ a = b

\* a < b
JSLt(a, b) == (~IsNaN(a)) /\ (~IsNaN(b)) /\ a < b

\* a > b
JSGt(a, b) == (~IsNaN(a)) /\ (~IsNaN(b)) /\ a > b

----------------------------------------------------------------------------
(* Date *)

\* DayFromYear(y): the day number of 1 January of year y (day 0 = 1 Jan 1970)
DayFromYear(y) ==
    365 * (y - 1970) + ((y - 1969) \div 4) - ((y - 1901) \div 100)
        + ((y - 1601) \div 400)

\* DaysInYear(y)
DaysInYear(y) == DayFromYear(y + 1) - DayFromYear(y)

\* day within the year at which month m (0..11) starts
MonthStart(y, m) ==
    LET leap == DaysInYear(y) - 365
        tab  == <<0, 31, 59 + leap, 90 + leap, 120 + leap, 151 + leap,
                  181 + leap, 212 + leap, 243 + leap, 273 + leap,
                  304 + leap, 334 + leap, 365 + leap>>
    IN  tab[m + 1]

\* MakeDay(year, month, day): month is carried into the year, day is added
MakeDay(year, month, day) ==
    IF IsNaN(year) \/ IsNaN(month) \/ IsNaN(day) THEN NaN
    ELSE LET ym == year + (month \div 12)
             mn == month % 12
         IN  DayFromYear(ym) + MonthStart(ym, mn) + day - 1

\* YearFromTime
YearFromDay(n) ==
    CHOOSE y \in (1970 + (n \div 366) - 1) .. (1970 + (n \div 365) + 1) :
        DayFromYear(y) <= n /\ n < DayFromYear(y + 1)

\* MonthFromTime
MonthFromDay(n) ==
    LET y == YearFromDay(n)
        d == n - DayFromYear(y)
    IN  CHOOSE m \in 0 .. 11 : MonthStart(y, m) <= d /\ d < MonthStart(y, m + 1)

\* DateFromTime
DateFromDay(n) ==
    LET y == YearFromDay(n)
    IN  n - DayFromYear(y) - MonthStart(y, MonthFromDay(n)) + 1

\* WeekDay: 1 January 1970 is a Thursday
WeekDay(n) == (n + 4) % 7

\* new Date(year, month, day) as its calendar fields
NewDate(year, month, day) ==
    LET n == MakeDay(year, month, day)
    IN  IF IsNaN(n) THEN [year |-> NaN, month |-> NaN, day |-> NaN]
        ELSE [year |-> YearFromDay(n), month |-> MonthFromDay(n),
              day |-> DateFromDay(n)]

\* new Date(year, month, day).getDay()
GetDay(year, month, day) ==
    LET n == MakeDay(year, month, day)
    IN  IF IsNaN(n) THEN NaN ELSE WeekDay(n)

\* new Date(year, month, day).getDate()
GetDate(year, month, day) == NewDate(year, month, day).day

\* months[] and months[i]
months == <<"January", "February", "March", "April", "May", "June", "July",
            "August", "September", "October", "November", "December">>

MonthName(i) == IF i \in 0 .. 11 THEN months[i + 1] ELSE "undefined"

----------------------------------------------------------------------------
(* parseInt and the string value of a number; strings are sequences of
   one-character strings *)

Digits == <<"0", "1", "2", "3", "4", "5", "6", "7", "8", "9">>

IsDigit(c) == \E k \in 1 .. 10 : Digits[k] = c

DigitVal(c) == (CHOOSE k \in 1 .. 10 : Digits[k] = c) - 1

\* the value of the longest run of digits of s that starts at position i
RECURSIVE ParseDigits(_, _, _)
ParseDigits(s, i, acc) ==
    IF i > Len(s) \/ ~IsDigit(s[i]) THEN acc
    ELSE ParseDigits(s, i + 1, acc * 10 + DigitVal(s[i]))

\* position of the first character of s at or after i that is not a blank
RECURSIVE SkipBlanks(_, _)
SkipBlanks(s, i) ==
    IF i <= Len(s) /\ s[i] = " " THEN SkipBlanks(s, i + 1) ELSE i

\* parseInt(s): blanks, an optional sign, then decimal digits; NaN when
\* no digit follows
ParseInt(s) ==
    LET b     == SkipBlanks(s, 1)
        neg   == b <= Len(s) /\ s[b] = "-"
        start == IF b <= Len(s) /\ s[b] \in {"-", "+"} THEN b + 1 ELSE b
    IN  IF start > Len(s) \/ ~IsDigit(s[start]) THEN NaN
        ELSE IF neg THEN 0 - ParseDigits(s, start, 0)
        ELSE ParseDigits(s, start, 0)

RECURSIVE NatToString(_)
NatToString(n) ==
    IF n < 10 THEN <<Digits[n + 1]>>
    ELSE Append(NatToString(n \div 10), Digits[(n % 10) + 1])

\* String(x), as assigned to an element's value
NumToString(x) ==
    IF IsNaN(x) THEN <<"N", "a", "N">>
    ELSE IF x < 0 THEN <<"-">> \o NatToString(0 - x)
    ELSE NatToString(x)

----------------------------------------------------------------------------
(* The icon calendar: calendar() *)

\* new Date(currYear, currMonth, 1).getDay()
FirstDayofMonth(cy, cm) == GetDay(cy, cm, 1)

\* LastDateofMonth without the + 1 on the month
LastDateofMonth_ThisMonth(cy, cm) == GetDate(cy, cm, 0)

\* new Date(currYear, currMonth + 1, 0).getDate()
LastDateofMonth(cy, cm) == GetDate(cy, cm + 1, 0)

\* new Date(currYear, currMonth, lastDateofMonth).getDay()
LastDayofMonth(cy, cm) == GetDay(cy, cm, LastDateofMonth(cy, cm))

\* new Date(currYear, currMonth, 0).getDate()
LastDateofLastMonth(cy, cm) == GetDate(cy, cm, 0)

\* one <li class="cls">txt</li>
Li(cls, txt) == [cls |-> cls, txt |-> txt]

\* LeadingCells with the loop counting up from 1 to firstDayofMonth
LeadingCells_CountUp(first, lastPrev) ==
    [k \in 1 .. first |-> Li("inactive", lastPrev - k + 1)]

\* for (i = firstDayofMonth; i > 0; i--): the k-th cell has i = first - k + 1
LeadingCells(first, lastPrev) ==
    [k \in 1 .. first |-> Li("inactive", lastPrev - (first - k + 1) + 1)]

\* IsTodayClass without the comparison of the year
IsTodayClass_NoYear(i, cy, cm, dt, clock) ==
    IF i = dt.day /\ cm = clock.month THEN "active" ELSE ""

\* the class of the cell of day i
IsTodayClass(i, cy, cm, dt, clock) ==
    IF i = dt.day /\ cm = clock.month /\ cy = clock.year THEN "active" ELSE ""

\* ActiveCells with the loop condition i < lastDateofMonth
ActiveCells_Exclusive(lastDate, cy, cm, dt, clock) ==
    [i \in 1 .. (lastDate - 1) |-> Li(IsTodayClass(i, cy, cm, dt, clock), i)]

\* for (i = 1; i <= lastDateofMonth; i++)
ActiveCells(lastDate, cy, cm, dt, clock) ==
    [i \in 1 .. lastDate |-> Li(IsTodayClass(i, cy, cm, dt, clock), i)]

\* TrailingCells with the loop condition i <= 6
TrailingCells_Inclusive(lastDay) ==
    [k \in 1 .. (7 - lastDay) |-> Li("inactive", (lastDay + k - 1) - lastDay + 1)]

\* for (i = lastDayofMonth; i < 6; i++): the k-th cell has i = lastDay + k - 1
TrailingCells(lastDay) ==
    [k \in 1 .. (6 - lastDay) |-> Li("inactive", (lastDay + k - 1) - lastDay + 1)]

\* liTag at the end of calendar()
CalendarCells(cy, cm, dt, clock) ==
    LeadingCells(FirstDayofMonth(cy, cm), LastDateofLastMonth(cy, cm))
        \o ActiveCells(LastDateofMonth(cy, cm), cy, cm, dt, clock)
        \o TrailingCells(LastDayofMonth(cy, cm))

\* `${months[currMonth]} ${currYear}`
Label(m, y) == <<MonthName(m), y>>

\* the globals after the first lines of the icon click handler
ClickView(id, cy, cm, clock) ==
    LET m1 == IF id = "prev" THEN cm - 1 ELSE cm + 1
    IN  IF m1 < 0 \/ m1 > 11
        THEN LET d == NewDate(cy, m1, clock.day)
             IN  [date |-> d, year |-> d.year, month |-> d.month]
        ELSE [date |-> clock, year |-> cy, month |-> m1]

\* click on the icon with the given id
IconClick(id) ==
    LET v == ClickView(id, currYear, currMonth, now)
    IN  /\ v.year \in Years
        /\ date' = v.date
        /\ currYear' = v.year
        /\ currMonth' = v.month
        /\ daysTag' = CalendarCells(v.year, v.month, v.date, now)
        /\ currentDate' = Label(v.month, v.year)
        /\ lastOp' = IF id = "prev" THEN "prevIcon" ELSE "nextIcon"
        /\ UNCHANGED <<now, today, tableVars, consoleError>>

PrevIconClick == IconClick("prev")

NextIconClick == IconClick("next")

\* keydown of ArrowLeft or ArrowRight: `month` is declared nowhere, reading
\* it throws before calendar() is reached
KeyDown ==
    /\ consoleError' = "ReferenceError"
    /\ lastOp' = "keydown"
    /\ UNCHANGED <<now, today, iconVars, tableVars>>

----------------------------------------------------------------------------
(* The table calendar: showCalendar(month, year) *)

\* daysInMonth(month, year): the number of days of the month
daysInMonth(month, year) == GetDate(year, JSAdd(month, 1), 0)

\* ( new Date( year, month ) ).getDay()
FirstDay(month, year) == GetDay(year, month, 1)

\* the empty <td> of a leading blank; it carries no attribute (0, "")
BlankTd == [cls |-> "", text |-> 0, dataDate |-> 0, dataMonth |-> 0,
            dataYear |-> 0, monthName |-> ""]

\* date === today.getDate() && year === today.getFullYear()
\*     && month === today.getMonth()
IsSelected(d, month, year, tdy) ==
    JSStrictEq(d, tdy.day) /\ JSStrictEq(year, tdy.year)
        /\ JSStrictEq(month, tdy.month)

\* the <td> of day d
DateTd(d, month, year, tdy) ==
    [cls       |-> IF IsSelected(d, month, year, tdy)
                   THEN "date-picker selected" ELSE "date-picker",
     text      |-> d,
     dataDate  |-> d,
     dataMonth |-> JSAdd(month, 1),
     dataYear  |-> year,
     monthName |-> MonthName(month)]

\* i === 0 && j < firstDay
IsLeadingBlank(i, j, firstDay) == i = 0 /\ JSLt(j, firstDay)

\* date > daysInMonth(month, year), dim being the value of the call
PastLastDay(d, dim) == JSGt(d, dim)

\* what the loops read and do not change: firstDay, the value dim of
\* daysInMonth(month, year), and the arguments
LoopCtx(month, year, tdy) ==
    [firstDay |-> FirstDay(month, year), dim |-> daysInMonth(month, year),
     month |-> month, year |-> year, today |-> tdy]

\* the inner loop from column j on: the row built and the next date
RECURSIVE RowFrom(_, _, _, _, _)
RowFrom(i, j, d, row, c) ==
    IF j >= 7 THEN [row |-> row, date |-> d]
    ELSE IF IsLeadingBlank(i, j, c.firstDay)
    THEN RowFrom(i, j + 1, d, Append(row, BlankTd), c)
    ELSE IF PastLastDay(d, c.dim)
    THEN [row |-> row, date |-> d]
    ELSE RowFrom(i, j + 1, d + 1,
                 Append(row, DateTd(d, c.month, c.year, c.today)), c)

\* RowLimit with five rows
RowLimit_Five(i) == i < 5

\* i < 6
RowLimit(i) == i < 6

\* the outer loop from row i on, appending to the rows of the body
RECURSIVE RowsFrom(_, _, _, _)
RowsFrom(i, d, rows, c) ==
    IF ~RowLimit(i) THEN rows
    ELSE LET r == RowFrom(i, 0, d, <<>>, c)
         IN  RowsFrom(i + 1, r.date, Append(rows, r.row), c)

\* the rows of the body after the loops of showCalendar(month, year)
AppendRows(rows, month, year, tdy) ==
    RowsFrom(0, 1, rows, LoopCtx(month, year, tdy))

\* ClearBody without the assignment of ""
ClearBody_Keep(rows) == rows

\* tbl.innerHTML = ""
ClearBody(rows) == <<>>

\* showCalendar(month, year)
ShowCalendar(month, year) ==
    /\ tbl' = AppendRows(ClearBody(tbl), month, year, today)
    /\ monthAndYear' = Label(month, year)
    /\ selectYear' = NumToString(year)
    /\ selectMonth' = NumToString(month)

\* NextView without the carry into the year
NextView_NoCarry(cy, cm) ==
    [year |-> cy, month |-> JSMod(JSAdd(cm, 1), 12)]

\* the view after next()
NextView(cy, cm) ==
    [year  |-> IF JSStrictEq(cm, 11) THEN JSAdd(cy, 1) ELSE cy,
     month |-> JSMod(JSAdd(cm, 1), 12)]

\* the view after previous()
PreviousView(cy, cm) ==
    [year  |-> IF JSStrictEq(cm, 0) THEN JSSub(cy, 1) ELSE cy,
     month |-> IF JSStrictEq(cm, 0) THEN 11 ELSE JSSub(cm, 1)]

\* the view after jump() with the selectors at ys, ms
JumpView(ys, ms) == [year |-> ParseInt(ys), month |-> ParseInt(ms)]

InYears(y) == IsNaN(y) \/ y \in Years

next ==
    LET v == NextView(currentYear, currentMonth)
    IN  /\ InYears(v.year)
        /\ currentYear' = v.year
        /\ currentMonth' = v.month
        /\ ShowCalendar(v.month, v.year)
        /\ lastOp' = "next"
        /\ UNCHANGED <<now, today, iconVars, consoleError>>

previous ==
    LET v == PreviousView(currentYear, currentMonth)
    IN  /\ InYears(v.year)
        /\ IsNaN(v.month) \/ v.month >= 0 - MaxBelow
        /\ currentYear' = v.year
        /\ currentMonth' = v.month
        /\ ShowCalendar(v.month, v.year)
        /\ lastOp' = "previous"
        /\ UNCHANGED <<now, today, iconVars, consoleError>>

\* the values a user can leave in the selectors
YearInputs == {NumToString(FirstYear + 1), <<"y">>}

MonthInputs == {<<"5">>, <<"1", "2">>, <<"-", "1">>, <<>>}

jump ==
    \E ys \in YearInputs, ms \in MonthInputs :
        LET v == JumpView(ys, ms)
        IN  /\ currentYear' = v.year
            /\ currentMonth' = v.month
            /\ ShowCalendar(v.month, v.year)
            /\ lastOp' = "jump"
            /\ UNCHANGED <<now, today, iconVars, consoleError>>

----------------------------------------------------------------------------
(* The specification *)

Clock(y, m, d) == [year |-> y, month |-> m, day |-> d]

\* the days the page is loaded on: a 31 December, the last day of the
\* February after it, and a day in the middle of that year
Clocks == {Clock(FirstYear, 11, 31),
           Clock(FirstYear + 1, 1, LastDateofMonth(FirstYear + 1, 1)),
           Clock(FirstYear + 1, 6, 30)}

Init ==
    /\ now \in Clocks
    /\ date = now
    /\ currYear = now.year
    /\ currMonth = now.month
    /\ daysTag = CalendarCells(now.year, now.month, now, now)
    /\ currentDate = Label(now.month, now.year)
    /\ today = now
    /\ currentYear = now.year
    /\ currentMonth = now.month
    /\ selectYear = NumToString(now.year)
    /\ selectMonth = NumToString(now.month)
    /\ tbl = AppendRows(<<>>, now.month, now.year, now)
    /\ monthAndYear = Label(now.month, now.year)
    /\ consoleError = "none"
    /\ lastOp = "load"

\* the handlers of the icon calendar
NextIcons ==
    \/ PrevIconClick
    \/ NextIconClick
    \/ KeyDown

\* the handlers of the table calendar
NextTable ==
    \/ next
    \/ previous
    \/ jump

Next ==
    \/ NextIcons
    \/ NextTable

Spec == Init /\ [][Next]_vars

\* the page with only the icon calendar in use
SpecIcons == Init /\ [][NextIcons]_vars

\* the page with only the table calendar in use
SpecTable == Init /\ [][NextTable]_vars

IconOps == {"prevIcon", "nextIcon", "keydown"}

TableOps == {"next", "previous", "jump"}

\* The handlers of one calendar neither read nor write the variables of the
\* other, so a behaviour of Spec interleaves a behaviour of each calendar.
\* NextOneWidget keeps to the calendar that was used first.
NextOneWidget ==
    \/ lastOp \notin TableOps /\ NextIcons
    \/ lastOp \notin IconOps /\ NextTable

SpecOneWidget == Init /\ [][NextOneWidget]_vars

----------------------------------------------------------------------------
(* The calendar rules the properties are stated against *)

StdIsLeap(y) == (y % 4 = 0 /\ y % 100 # 0) \/ y % 400 = 0

\* the number of days of month m (0..11) of year y
StdMonthLen(y, m) ==
    IF m = 1 THEN (IF StdIsLeap(y) THEN 29 ELSE 28)
    ELSE IF m \in {3, 5, 8, 10} THEN 30 ELSE 31

\* the number of days of the month before month m (0..11) of year y
StdPrevMonthLen(y, m) ==
    IF m = 0 THEN StdMonthLen(y - 1, 11) ELSE StdMonthLen(y, m - 1)

\* the weekday (0 = Sunday) of day d of month m (0..11) of year y
StdWeekday(y, m, d) ==
    LET t  == <<0, 3, 2, 5, 0, 3, 5, 1, 4, 6, 2, 4>>
        yy == IF m < 2 THEN y - 1 ELSE y
    IN  (yy + (yy \div 4) - (yy \div 100) + (yy \div 400) + t[m + 1] + d) % 7

IconFirst == StdWeekday(currYear, currMonth, 1)

IconLen == StdMonthLen(currYear, currMonth)

IconClicked == lastOp \in {"prevIcon", "nextIcon"}

TableNavigated == lastOp \in TableOps

\* the cells of the rows of the body, in document order
RECURSIVE Flatten(_)
Flatten(rows) ==
    IF rows = <<>> THEN <<>> ELSE Head(rows) \o Flatten(Tail(rows))

----------------------------------------------------------------------------
(* Properties of the icon calendar *)

\* C1: the number of cells of the grid of calendar() is a multiple of 7, the
\* smallest one that is at least firstWeekday + lastDateOfMonth, and so at
\* most 42.
C1_CellCount ==
    LET n == IconFirst + IconLen
    IN  /\ Len(daysTag) % 7 = 0
        /\ Len(daysTag) >= n
        /\ Len(daysTag) - 7 < n
        /\ Len(daysTag) <= 42

\* C1 witness: a click rendered a month that needs all six weeks.
C1_Witness == IconClicked /\ Len(daysTag) = 42 /\ IconFirst + IconLen > 35

\* C2: the cells are inactive leading cells, then the cells of the month
\* labelled 1 .. the month's day count (29 for a leap-year February), then
\* inactive trailing cells labelled 1, 2, .., never interleaved.
C2_ThreeBlocks ==
    \E a \in 0 .. Len(daysTag) :
        /\ a + IconLen <= Len(daysTag)
        /\ \A k \in 1 .. a : daysTag[k].cls = "inactive"
        /\ \A k \in 1 .. IconLen :
               daysTag[a + k].cls # "inactive" /\ daysTag[a + k].txt = k
        /\ \A k \in 1 .. (Len(daysTag) - a - IconLen) :
               daysTag[a + IconLen + k] = Li("inactive", k)

\* C2 witness: a click rendered a leap-year February, whose last cell of
\* the month is 29 and is followed by trailing cells.
C2_Witness ==
    /\ IconClicked
    /\ currMonth = 1
    /\ StdIsLeap(currYear)
    /\ \E k \in 1 .. (Len(daysTag) - 1) :
           /\ daysTag[k].cls # "inactive" /\ daysTag[k].txt = 29
           /\ daysTag[k + 1] = Li("inactive", 1)

\* C3: calendar() emits exactly firstWeekday leading inactive cells, labelled
\* lastDateOfPrevMonth - firstWeekday + 1 .. lastDateOfPrevMonth ascending,
\* the previous month of January being December of the year before.
C3_LeadingCells ==
    LET f == IconFirst
        p == StdPrevMonthLen(currYear, currMonth)
    IN  /\ Len(daysTag) > f
        /\ \A k \in 1 .. f : daysTag[k] = Li("inactive", p - f + k)
        /\ daysTag[f + 1].cls # "inactive"

\* C3 witness: a click rendered a January that does not start on a Sunday.
C3_Witness ==
    /\ IconClicked
    /\ currMonth = 0
    /\ IconFirst > 1
    /\ daysTag[1].cls = "inactive"

\* the grid of February 2024 with the given number of trailing cells
Feb2024Grid(trailing) ==
    [k \in 1 .. 4 |-> Li("inactive", 27 + k)]
        \o [k \in 1 .. 29 |-> Li(IF now = Clock(2024, 1, k) THEN "active" ELSE "", k)]
        \o [k \in 1 .. trailing |-> Li("inactive", k)]

\* C4 as stated: February 2024 has 4 leading cells 28..31, 29 cells of the
\* month, 3 trailing cells and 36 cells in all.
C4_Original ==
    (currYear = 2024 /\ currMonth = 1) =>
        (daysTag = Feb2024Grid(3) /\ Len(daysTag) = 36)

\* C4 amended: for February 2024 the grid has 4 leading inactive cells
\* labelled 28, 29, 30, 31, the 29 cells 1..29 of the month, and 2 trailing
\* inactive cells, 35 cells in all; the first weekday is 4.
C4_Feb2024 ==
    (currYear = 2024 /\ currMonth = 1) =>
        /\ daysTag = Feb2024Grid(2)
        /\ Len(daysTag) = 35
        /\ FirstDayofMonth(currYear, currMonth) = 4

\* C4 witness: a click rendered February 2024.
C4_Witness == IconClicked /\ currYear = 2024 /\ currMonth = 1

\* the positions of the cells marked as today
MarkedCells == {k \in 1 .. Len(daysTag) : daysTag[k].cls = "active"}

\* C5: at most one cell is marked as today; it is a cell of the month whose
\* label is today's day of the month, and the displayed year and month are
\* the current ones.
C5_TodayMark ==
    /\ Cardinality(MarkedCells) <= 1
    /\ \A k \in MarkedCells :
           /\ daysTag[k].txt = now.day
           /\ k = IconFirst + now.day
           /\ currYear = now.year
           /\ currMonth = now.month

\* C5 witness: the prev icon went from January back to the current December
\* (the branch that rebuilds `date`), and today's cell is marked.
C5_Witness ==
    /\ lastOp = "prevIcon"
    /\ currMonth = 11
    /\ MarkedCells # {}

----------------------------------------------------------------------------
(* Properties of the table calendar and of navigation *)

\* C6 as stated: after any navigation with integer inputs the month index of
\* the view is in 0..11 and the label names a month.
C6_Original ==
    /\ currMonth \in 0 .. 11
    /\ (~IsNaN(currentYear) /\ ~IsNaN(currentMonth)) =>
           (currentMonth \in 0 .. 11 /\ monthAndYear[1] # "undefined")

\* the cells of the body that carry a date
DateCells == SelectSeq(Flatten(tbl), LAMBDA c : c.cls # "")

\* C7 as stated: a jump() whose year or month does not parse to an integer
\* fails with InvalidDateInput and renders no malformed grid.
C7_Original ==
    (lastOp = "jump" /\ (IsNaN(currentYear) \/ IsNaN(currentMonth))) =>
        /\ consoleError = "InvalidDateInput"
        /\ \A k \in 1 .. Len(DateCells) : DateCells[k].dataDate <= 31
        /\ monthAndYear[1] # "undefined"

\* C8: after any navigation the displayed cells and label of each calendar
\* are exactly those of a fresh rendering of its current view, with nothing
\* left from an earlier rendering.
C8_DisplayIsCurrentView ==
    /\ daysTag = CalendarCells(currYear, currMonth, date, now)
    /\ currentDate = <<MonthName(currMonth), currYear>>
    /\ tbl = AppendRows(<<>>, currentMonth, currentYear, today)
    /\ monthAndYear = <<MonthName(currentMonth), currentYear>>
    /\ Len(tbl) = 6
    /\ Len(daysTag) <= 42

\* C8 witness: previous() went to a February, after a March whose body had
\* more cells.
C8_Witness ==
    /\ lastOp = "previous"
    /\ currentMonth = 1
    /\ monthAndYear = <<"February", currentYear>>
    /\ Len(DateCells) <= 29

\* year * 12 + month
MonthIndex(y, m) == y * 12 + m

\* C9: from a month in 0..11, next() and previous() keep the month in 0..11
\* and move the view by exactly one month forward and backward, and the
\* other one applied to the result restores the view; likewise for the
\* next and prev icons.
C9_StepAndReturn ==
    [][/\ (lastOp' = "next" /\ currentMonth \in 0 .. 11 /\ ~IsNaN(currentYear)) =>
              /\ currentMonth' \in 0 .. 11
              /\ MonthIndex(currentYear', currentMonth')
                     = MonthIndex(currentYear, currentMonth) + 1
              /\ PreviousView(currentYear', currentMonth')
                     = [year |-> currentYear, month |-> currentMonth]
       /\ (lastOp' = "previous" /\ currentMonth \in 0 .. 11 /\ ~IsNaN(currentYear)) =>
              /\ currentMonth' \in 0 .. 11
              /\ MonthIndex(currentYear', currentMonth')
                     = MonthIndex(currentYear, currentMonth) - 1
              /\ NextView(currentYear', currentMonth')
                     = [year |-> currentYear, month |-> currentMonth]
       /\ (lastOp' = "nextIcon") =>
              /\ currMonth' \in 0 .. 11
              /\ MonthIndex(currYear', currMonth')
                     = MonthIndex(currYear, currMonth) + 1
              /\ ClickView("prev", currYear', currMonth', now').year = currYear
              /\ ClickView("prev", currYear', currMonth', now').month = currMonth
       /\ (lastOp' = "prevIcon") =>
              /\ currMonth' \in 0 .. 11
              /\ MonthIndex(currYear', currMonth')
                     = MonthIndex(currYear, currMonth) - 1
              /\ ClickView("next", currYear', currMonth', now').year = currYear
              /\ ClickView("next", currYear', currMonth', now').month = currMonth
      ]_vars

\* C9 witness: next() carried December into January of the next year.
C9_Witness ==
    /\ lastOp = "next"
    /\ currentMonth = 0
    /\ currentYear = today.year + 1
    /\ monthAndYear = <<"January", today.year + 1>>

\* C10: for a month in 0..11, showCalendar appends exactly 6 rows of at most
\* 7 cells; the first row starts with firstDay blank cells, there is no
\* other blank, and the date cells are 1..daysInMonth once each, ascending,
\* with nothing after the last day.
C10_SixRows ==
    (currentMonth \in 0 .. 11 /\ ~IsNaN(currentYear)) =>
        LET f == StdWeekday(currentYear, currentMonth, 1)
            n == StdMonthLen(currentYear, currentMonth)
            cells == Flatten(tbl)
        IN  /\ Len(tbl) = 6
            /\ \A r \in 1 .. 6 : Len(tbl[r]) <= 7
            /\ Len(tbl[1]) = 7
            /\ \A k \in 1 .. f : tbl[1][k] = BlankTd
            /\ Len(cells) = f + n
            /\ \A k \in 1 .. n :
                   /\ cells[f + k].cls # ""
                   /\ cells[f + k].text = k
                   /\ cells[f + k].dataDate = k

\* C10 witness: a navigation rendered a 31-day month that starts on a
\* Saturday, whose last two days are in the sixth row.
C10_Witness ==
    /\ TableNavigated
    /\ currentMonth \in 0 .. 11
    /\ ~IsNaN(currentYear)
    /\ StdWeekday(currentYear, currentMonth, 1) = 6
    /\ Len(tbl[6]) = 2
    /\ tbl[6][2].text = 31

====
